---- MODULE Spec2Model ----
(***************************************************************************)
(* finddupes.py: find duplicate files under the given directories.        *)
(*                                                                         *)
(* One run of main(args) is modelled as a sequence of steps, one per       *)
(* filesystem access of the script (isdir of a root, stat of a walked      *)
(* file, read of a file for hashing) and one per reporting step.  The      *)
(* filesystem is part of the state: other processes may rewrite a file or  *)
(* take away its read permission between two steps of the run.             *)
(***************************************************************************)
EXTENDS Integers, Sequences, FiniteSets, TLC

\* ------------------------------------------------------------------------
\* Bounds of the model
\* ------------------------------------------------------------------------
MaxLen == 2
MaxRoots == 2
MaxEdits == 1

\* ------------------------------------------------------------------------
\* The filesystem the script is run on
\* ------------------------------------------------------------------------
Bytes == {1, 2}

RECURSIVE SeqsUpTo(_)
SeqsUpTo(n) ==
    IF n = 0 THEN {<<>>}
    ELSE LET shorter == SeqsUpTo(n - 1)
         IN  shorter \cup {Append(s, b) : s \in {t \in shorter : Len(t) = n - 1}, b \in Bytes}

Contents == SeqsUpTo(MaxLen)

\* /a holds f1 and the sub-directory /a/s, /a/s holds f2, /b holds f3.
Tree ==
    [d \in {"/a", "/a/s", "/b"} |->
        CASE d = "/a"   -> [files |-> <<"/a/f1">>,   dirs |-> <<"/a/s">>]
          [] d = "/a/s" -> [files |-> <<"/a/s/f2">>, dirs |-> <<>>]
          [] d = "/b"   -> [files |-> <<"/b/f3">>,   dirs |-> <<>>]]

Dirs == DOMAIN Tree
Paths == {"/a/f1", "/a/s/f2", "/b/f3"}

\* What may be given on the command line: directories, a path that does not
\* exist and a path that is a regular file.
RootArgs == Dirs \cup {"/missing", "/a/f1"}

RECURSIVE SeqsOfLen(_, _)
SeqsOfLen(S, n) ==
    IF n = 0 THEN {<<>>}
    ELSE {Append(s, x) : s \in SeqsOfLen(S, n - 1), x \in S}

\* docopt's "<directory>..." requires at least one directory argument.
RootLists == UNION {SeqsOfLen(RootArgs, n) : n \in 1..MaxRoots}

isdir(p) == p \in Dirs

RECURSIVE Concat(_)
Concat(ss) == IF ss = <<>> THEN <<>> ELSE Head(ss) \o Concat(Tail(ss))

\* os.walk(dir), top-down: the files of dir, then those of each sub-directory.
\* os.walk ignores the error of listing a path that is no directory and yields
\* nothing for it.
RECURSIVE oswalk(_)
oswalk(d) ==
    IF ~isdir(d) THEN <<>>
    ELSE Tree[d].files \o Concat([i \in 1..Len(Tree[d].dirs) |-> oswalk(Tree[d].dirs[i])])

\* Mutant: a root that was given before is not walked again.
WalkList_dedup(rs) ==
    Concat([i \in 1..Len(rs) |->
              IF \E j \in 1..(i - 1) : rs[j] = rs[i] THEN <<>> ELSE oswalk(rs[i])])

\* The file visits of the two nested loops over the roots and their walks.
WalkList(rs) == Concat([i \in 1..Len(rs) |-> oswalk(rs[i])])

\* ------------------------------------------------------------------------
\* SHA1 of a file, read in chunks
\* ------------------------------------------------------------------------
\* chunksize=160*64 in the source; scaled to the file lengths of the model so
\* that a file is read in one chunk or in several.
ChunkSize == 1

NoHash == -1

Min(a, b) == IF a < b THEN a ELSE b

\* h.update(chunk): the digest state absorbs the bytes of the chunk in order.
\* The digest is an injective code of the byte sequence (no collisions).
RECURSIVE update(_, _)
update(h, chunk) ==
    IF chunk = <<>> THEN h
    ELSE update(h * (Cardinality(Bytes) + 1) + Head(chunk), Tail(chunk))

\* for chunk in iter(lambda: f.read(chunksize), b''): h.update(chunk)
RECURSIVE readchunks(_, _)
readchunks(h, rest) ==
    IF rest = <<>> THEN h
    ELSE LET n == Min(ChunkSize, Len(rest))
         IN  readchunks(update(h, SubSeq(rest, 1, n)), SubSeq(rest, n + 1, Len(rest)))

\* Mutant: a single f.read(chunksize) instead of the loop over the chunks.
sha1_firstchunk(content) == update(0, SubSeq(content, 1, Min(ChunkSize, Len(content))))

sha1(content) == readchunks(0, content)

\* ------------------------------------------------------------------------
\* State
\* ------------------------------------------------------------------------
VARIABLES
    roots,       \* args['<directory>']
    excel,       \* args['--xls'] and XLS_SUPPORT
    disk,        \* content of each file, as it is on disk now
    readable,    \* whether open(path, 'rb') succeeds
    stamp,       \* st_ctime and st_mtime of each file
    edits,       \* number of changes other processes made to the files
    pc,          \* position of main
    di,          \* index of the root being validated
    wi,          \* index of the next file visit of the walk
    recs,        \* the FileData objects, in the order they were created
    lazy,        \* _lazy_hash of each FileData, NoHash while the attribute is absent
    reads,       \* per FileData, the contents hashfile read for it (call spy)
    failedAt,    \* the FileData whose file could not be opened, 0 if none
    filesizes,   \* size -> list of FileData
    num_zero_byte_files,
    zi,          \* row of the loop over filesizes[0]
    zeroRows,    \* rows written to the 'Zero-byte files' sheet
    sizesTodo,   \* keys of filesizes hash_files has not iterated yet
    cur,         \* key of the bucket being iterated, NoKey between buckets
    fi,          \* index of the next member of the bucket being iterated
    hashes,      \* hash -> list of FileData
    hashesTodo,  \* keys of hashes duplicates() has not iterated yet
    gcur,        \* key of the group being reported, NoKey between groups
    gi,          \* index of the next member of the group being reported
    groups,      \* the duplicate groups reported so far, each with its rows
    printedZero, \* the number in "Number of zero byte files: %d", NoCount if not printed
    saved,       \* wb.save was called
    exit,        \* exit status of the process, NoExit while running
    error        \* why the run ended abnormally

fsvars   == <<disk, readable, stamp, edits>>
argvars  == <<roots, excel>>
walkvars == <<recs, filesizes>>
lazyvars == <<lazy, reads, failedAt>>
zerovars == <<num_zero_byte_files, zi, zeroRows>>
hashvars == <<sizesTodo, cur, fi, hashes>>
repvars  == <<hashesTodo, gcur, gi, groups, printedZero, saved>>
endvars  == <<exit, error>>

vars == <<roots, excel, disk, readable, stamp, edits, pc, di, wi, recs, lazy, reads,
          failedAt, filesizes, num_zero_byte_files, zi, zeroRows, sizesTodo, cur, fi,
          hashes, hashesTodo, gcur, gi, groups, printedZero, saved, exit, error>>

NoKey == -1
NoCount == -1
NoExit == -1
NoError == "none"

\* A defaultdict(list): a function whose domain is the set of keys present.
EmptyDict == [k \in {} |-> <<>>]

\* d[k].append(v)
DictAppend(d, k, v) ==
    [x \in DOMAIN d \cup {k} |->
        IF x = k THEN (IF k \in DOMAIN d THEN Append(d[k], v) ELSE <<v>>) ELSE d[x]]

\* d[k], which inserts an empty list under a missing key
DictGet(d, k) == IF k \in DOMAIN d THEN d[k] ELSE <<>>

\* Mutant: the key is not deleted.
DictDel_keep(d, k) == d

\* del d[k]
DictDel(d, k) == [x \in DOMAIN d \ {k} |-> d[x]]

Init ==
    /\ roots \in RootLists
    /\ excel \in BOOLEAN
    /\ disk \in [Paths -> Contents]
    /\ readable = [p \in Paths |-> TRUE]
    /\ stamp = [p \in Paths |-> 0]
    /\ edits = 0
    /\ pc = "validate"
    /\ di = 1
    /\ wi = 1
    /\ recs = <<>>
    /\ lazy = <<>>
    /\ reads = <<>>
    /\ failedAt = 0
    /\ filesizes = EmptyDict
    /\ num_zero_byte_files = NoCount
    /\ zi = 1
    /\ zeroRows = <<>>
    /\ sizesTodo = {}
    /\ cur = NoKey
    /\ fi = 1
    /\ hashes = EmptyDict
    /\ hashesTodo = {}
    /\ gcur = NoKey
    /\ gi = 1
    /\ groups = <<>>
    /\ printedZero = NoCount
    /\ saved = FALSE
    /\ exit = NoExit
    /\ error = NoError

\* ------------------------------------------------------------------------
\* FileData
\* ------------------------------------------------------------------------

\* FileData(path): os.stat of the path; no content is read.
FileData(p) ==
    [path |-> p, size |-> Len(disk[p]), mtime |-> stamp[p], ctime |-> stamp[p]]

IOError == -2

\* Mutant: the error of open() is swallowed and the digest of no data returned.
hashfile_swallow(p) == IF readable[p] THEN sha1(disk[p]) ELSE sha1(<<>>)

\* FileData.hashfile(path): the digest of what is on disk now, or the IOError
\* that open() raises.
hashfile(p) == IF readable[p] THEN sha1(disk[p]) ELSE IOError

\* Mutant: the property is computed at every access.
Cached_never(i) == FALSE

\* lazyprop: hasattr(self, '_lazy_hash')
Cached(i) == lazy[i] # NoHash

\* What the access f.hash evaluates to for the FileData i.
HashValue(i) == IF Cached(i) THEN lazy[i] ELSE hashfile(recs[i].path)

\* The effect of the access f.hash on the FileData (setattr) and on the spy.
\* An exception of hashfile leaves the attribute absent.
HashAccess(i) ==
    LET p == recs[i].path
        v == HashValue(i)
    IN  /\ lazy' = IF v = IOError THEN lazy ELSE [lazy EXCEPT ![i] = v]
        /\ reads' = IF Cached(i) \/ ~readable[p] THEN reads
                    ELSE [reads EXCEPT ![i] = Append(@, disk[p])]
        /\ failedAt' = IF ~Cached(i) /\ ~readable[p] /\ failedAt = 0 THEN i ELSE failedAt

\* An uncaught exception ends the process with a traceback and status 1.
Raise(i) ==
    /\ pc' = "done"
    /\ exit' = 1
    /\ error' = "IOError"

\* ------------------------------------------------------------------------
\* main
\* ------------------------------------------------------------------------

\* Mutant: the validation loop stops after the first root.
BadRoot_first(i) == i = 1 /\ ~isdir(roots[i])

\* not os.path.isdir(os.path.abspath(dir)) for the i-th root
BadRoot(i) == ~isdir(roots[i])

\* One iteration of the validation loop.
CheckRoot ==
    /\ pc = "validate"
    /\ IF BadRoot(di)
       THEN /\ pc' = "done"
            /\ exit' = 1
            /\ error' = "NotADirectory"
            /\ UNCHANGED di
       ELSE /\ di' = di + 1
            /\ pc' = IF di = Len(roots) THEN "walk" ELSE "validate"
            /\ UNCHANGED endvars
    /\ UNCHANGED <<argvars, fsvars, wi, walkvars, lazyvars, zerovars, hashvars, repvars>>

\* One iteration of the walk: f = FileData(...); filesizes[f.size].append(f)
StatFile ==
    /\ pc = "walk"
    /\ wi <= Len(WalkList(roots))
    /\ LET f == FileData(WalkList(roots)[wi])
       IN  /\ recs' = Append(recs, f)
           /\ lazy' = Append(lazy, NoHash)
           /\ reads' = Append(reads, <<>>)
           /\ filesizes' = DictAppend(filesizes, f.size, Len(recs) + 1)
    /\ wi' = wi + 1
    /\ UNCHANGED <<argvars, fsvars, pc, di, failedAt, zerovars, hashvars, repvars, endvars>>

\* hash_files starts iterating filesizes.items()
StartHashing(fs) ==
    /\ pc' = "hash"
    /\ filesizes' = fs
    /\ sizesTodo' = DOMAIN fs
    /\ cur' = NoKey
    /\ fi' = 1

\* num_zero_byte_files = len(filesizes[0]); without excel, del filesizes[0]
\* follows at once.
ZeroByteCount ==
    /\ pc = "walk"
    /\ wi > Len(WalkList(roots))
    /\ LET n == Len(DictGet(filesizes, 0))
       IN  /\ num_zero_byte_files' = n
           /\ IF excel /\ n > 0
              THEN /\ pc' = "zerorows"
                   /\ UNCHANGED <<filesizes, hashvars>>
              ELSE /\ StartHashing(DictDel(filesizes, 0))
                   /\ UNCHANGED hashes
    /\ UNCHANGED <<argvars, fsvars, di, wi, recs, lazyvars, zi, zeroRows, repvars, endvars>>

\* The FileData whose fields the loop over filesizes[0] writes to row `row`:
\* the loop variable is `filename`, the body uses f, which is still bound to
\* the last FileData the walk created.
ZeroRowSubject(row) == Len(recs)

\* One iteration of "for row, filename in enumerate(filesizes[0])"
ZeroRow ==
    /\ pc = "zerorows"
    /\ LET f == ZeroRowSubject(zi)
       IN  /\ HashAccess(f)
           /\ IF HashValue(f) = IOError
              THEN /\ Raise(f)
                   /\ UNCHANGED <<zi, zeroRows, filesizes, hashvars>>
              ELSE /\ zeroRows' = Append(zeroRows,
                                    [path |-> recs[f].path, hash |-> HashValue(f),
                                     ctime |-> recs[f].ctime, mtime |-> recs[f].mtime])
                   /\ zi' = zi + 1
                   /\ IF zi = num_zero_byte_files
                      THEN /\ StartHashing(DictDel(filesizes, 0))
                           /\ UNCHANGED hashes
                      ELSE UNCHANGED <<pc, filesizes, hashvars>>
                   /\ UNCHANGED endvars
    /\ UNCHANGED <<argvars, fsvars, di, wi, recs, num_zero_byte_files, repvars>>

\* hash_files: if len(files) > 1
Candidates(files) == Len(files) > 1

\* One iteration of the inner loop of hash_files, over the bucket of size s:
\* hashes[f.hash].append(f).  The buckets are taken in any order.
HashMember(s) ==
    /\ pc = "hash"
    /\ \/ cur = s
       \/ cur = NoKey /\ s \in sizesTodo /\ Candidates(filesizes[s])
    /\ LET k == IF cur = s THEN fi ELSE 1
           f == filesizes[s][k]
       IN  /\ HashAccess(f)
           /\ IF HashValue(f) = IOError
              THEN /\ Raise(f)
                   /\ UNCHANGED hashvars
              ELSE /\ hashes' = DictAppend(hashes, HashValue(f), f)
                   /\ IF k = Len(filesizes[s])
                      THEN /\ cur' = NoKey
                           /\ fi' = 1
                           /\ sizesTodo' = sizesTodo \ {s}
                      ELSE /\ cur' = s
                           /\ fi' = k + 1
                           /\ UNCHANGED sizesTodo
                   /\ UNCHANGED <<pc, endvars>>
    /\ UNCHANGED <<argvars, fsvars, di, wi, walkvars, zerovars, repvars>>

\* hash_files returns; duplicates(hashes) starts iterating hashes.items()
HashDone ==
    /\ pc = "hash"
    /\ cur = NoKey
    /\ \A s \in sizesTodo : ~Candidates(filesizes[s])
    /\ pc' = "report"
    /\ sizesTodo' = {}
    /\ hashesTodo' = DOMAIN hashes
    /\ UNCHANGED <<argvars, fsvars, di, wi, walkvars, lazyvars, zerovars, cur, fi, hashes,
                   gcur, gi, groups, printedZero, saved, endvars>>

\* Mutants: an off-by-one in the test of duplicates().
IsDup_nonempty(files) == Len(files) > 0

IsDup_three(files) == Len(files) > 2

\* duplicates: if len(files) > 1
IsDup(files) == Len(files) > 1

\* One iteration of "for f in files" of the reporting loop, for the group that
\* duplicates() yielded under the key h: a row of the 'Duplicates' sheet, or a
\* printed line after the header line of the group.  The keys are taken in any
\* order.
ReportRow(h) ==
    /\ pc = "report"
    /\ \/ gcur = h
       \/ gcur = NoKey /\ h \in hashesTodo /\ IsDup(hashes[h])
    /\ LET k == IF gcur = h THEN gi ELSE 1
           f == hashes[h][k]
           row == [rec |-> f, path |-> recs[f].path, hash |-> HashValue(f),
                   size |-> recs[f].size, ctime |-> recs[f].ctime, mtime |-> recs[f].mtime]
       IN  /\ HashAccess(f)
           /\ IF HashValue(f) = IOError
              THEN /\ Raise(f)
                   /\ UNCHANGED <<hashesTodo, gcur, gi, groups>>
              ELSE /\ groups' = IF gcur = h
                                THEN [groups EXCEPT ![Len(groups)].rows = Append(@, row)]
                                ELSE Append(groups, [key |-> h, files |-> hashes[h], rows |-> <<row>>])
                   /\ IF k = Len(hashes[h])
                      THEN /\ gcur' = NoKey
                           /\ gi' = 1
                           /\ hashesTodo' = hashesTodo \ {h}
                      ELSE /\ gcur' = h
                           /\ gi' = k + 1
                           /\ UNCHANGED hashesTodo
                   /\ UNCHANGED <<pc, endvars>>
    /\ UNCHANGED <<argvars, fsvars, di, wi, walkvars, zerovars, hashvars, printedZero, saved>>

\* The end of main: the zero-byte count is printed or the workbook is saved,
\* and main returns 0.
Finish ==
    /\ pc = "report"
    /\ gcur = NoKey
    /\ \A h \in hashesTodo : ~IsDup(hashes[h])
    /\ IF excel
       THEN saved' = TRUE /\ UNCHANGED printedZero
       ELSE printedZero' = num_zero_byte_files /\ UNCHANGED saved
    /\ hashesTodo' = {}
    /\ pc' = "done"
    /\ exit' = 0
    /\ UNCHANGED <<argvars, fsvars, di, wi, walkvars, lazyvars, zerovars, hashvars,
                   gcur, gi, groups, error>>

\* ------------------------------------------------------------------------
\* Other processes
\* ------------------------------------------------------------------------

\* Changes made before the first stat of the run are the same as another
\* initial filesystem, so they are counted from the walk on.
Running == pc \notin {"validate", "done"}

\* Another process rewrites a file.
WriteFile(p, c) ==
    /\ Running
    /\ edits < MaxEdits
    /\ c # disk[p]
    /\ disk' = [disk EXCEPT ![p] = c]
    /\ stamp' = [stamp EXCEPT ![p] = edits + 1]
    /\ edits' = edits + 1
    /\ UNCHANGED <<argvars, readable, pc, di, wi, walkvars, lazyvars, zerovars, hashvars,
                   repvars, endvars>>

\* Another process takes the read permission of a file away.
Chmod(p) ==
    /\ Running
    /\ edits < MaxEdits
    /\ readable[p]
    /\ readable' = [readable EXCEPT ![p] = FALSE]
    /\ edits' = edits + 1
    /\ UNCHANGED <<argvars, disk, stamp, pc, di, wi, walkvars, lazyvars, zerovars, hashvars,
                   repvars, endvars>>

Next ==
    \/ CheckRoot
    \/ StatFile
    \/ ZeroByteCount
    \/ ZeroRow
    \/ \E s \in DOMAIN filesizes : HashMember(s)
    \/ HashDone
    \/ \E h \in DOMAIN hashes : ReportRow(h)
    \/ Finish
    \/ \E p \in Paths, c \in Contents : WriteFile(p, c)
    \/ \E p \in Paths : Chmod(p)

Spec == Init /\ [][Next]_vars

\* ------------------------------------------------------------------------
\* Properties
\* ------------------------------------------------------------------------
Recs == 1..Len(recs)

Success == pc = "done" /\ exit = 0

\* The FileData objects listed in the rows of a reported group.
Members(g) == {g.rows[k].rec : k \in 1..Len(g.rows)}

Grouped(i) == \E n \in 1..Len(groups) : i \in Members(groups[n])

\* The FileData objects of size 0, in the order of their creation.
ZeroRecs == SelectSeq([i \in Recs |-> i], LAMBDA i : recs[i].size = 0)

AllRootsValid == \A i \in 1..Len(roots) : isdir(roots[i])

\* C1: every duplicate group that duplicates(hash_files(filesizes)) yields has
\* at least 2 member records, and the content hash of every member equals the
\* key of the group.
C1_GroupsHaveTwoEqualHashes ==
    \A n \in 1..Len(groups) :
        /\ Len(groups[n].files) >= 2
        /\ \A k \in 1..Len(groups[n].files) : lazy[groups[n].files[k]] = groups[n].key

C1_Witness ==
    /\ Success
    /\ Len(groups) = 2
    /\ \A n \in 1..Len(groups) : Len(groups[n].rows) = 2

\* C2: in a run that completed, two records of equal non-zero size whose
\* digests are equal are members of one common reported group; two records whose
\* digests differ are never members of the same group; a record whose size, or
\* whose digest, is shared by no other record is a member of no group.
C2_GroupedIffEqualDigest ==
    /\ Success =>
         \A i, j \in Recs :
            (i # j /\ recs[i].size # 0 /\ recs[i].size = recs[j].size
                   /\ lazy[i] # NoHash /\ lazy[i] = lazy[j])
            => \E n \in 1..Len(groups) : {i, j} \subseteq Members(groups[n])
    /\ \A n \in 1..Len(groups) :
         \A i, j \in Members(groups[n]) : lazy[i] = lazy[j]
    /\ \A i \in Recs :
         (\/ \A j \in Recs \ {i} : recs[j].size # recs[i].size
          \/ \A j \in Recs \ {i} : lazy[j] # lazy[i])
         => ~Grouped(i)

\* a.txt and b.txt with the same content, c.txt of the same size with another.
C2_Witness ==
    /\ Success
    /\ Len(recs) = 3
    /\ recs[1].size = recs[3].size /\ recs[2].size = recs[3].size
    /\ lazy[3] # NoHash /\ ~Grouped(3)
    /\ Grouped(1) /\ Grouped(2)

\* C3: in a run with valid roots that completed, the reported zero-byte count
\* is the number of records of size 0 (the printed number in text mode, the
\* number of rows of the 'Zero-byte files' sheet in spreadsheet mode), and no
\* record of size 0 is ever a member of a reported group.
C3_ZeroByteCount ==
    /\ Success =>
         /\ num_zero_byte_files = Len(ZeroRecs)
         /\ ~excel => printedZero = Len(ZeroRecs)
         /\ excel => Len(zeroRows) = Len(ZeroRecs)
    /\ \A i \in Recs : recs[i].size = 0 => ~Grouped(i)
    /\ \A h \in DOMAIN hashes : \A k \in 1..Len(hashes[h]) : recs[hashes[h][k]].size # 0

C3_Witness ==
    /\ Success
    /\ ~excel
    /\ Len(ZeroRecs) = 2
    /\ printedZero = 2
    /\ Len(recs) = 4

\* C4: the content of a file is read for hashing only if the size of the
\* record is not 0 and another record has the same size.
C4_HashOnlyCandidates ==
    \A i \in Recs :
        reads[i] # <<>> =>
            /\ recs[i].size # 0
            /\ \E j \in Recs \ {i} : recs[j].size = recs[i].size

\* C5: if one of the roots is no directory, nothing is walked, stat'ed or
\* hashed, and the run ends with status 1; if all roots are directories and no
\* read fails, the run ends with status 0.
C5_InvalidRootFailsFast ==
    /\ ~AllRootsValid =>
         /\ recs = <<>> /\ wi = 1 /\ filesizes = EmptyDict
         /\ pc \in {"validate", "done"}
         /\ pc = "done" => (exit = 1 /\ error = "NotADirectory")
    /\ (AllRootsValid /\ pc = "done" /\ failedAt = 0) => exit = 0

C5_Witness ==
    /\ pc = "done" /\ exit = 1
    /\ Len(roots) = 2 /\ isdir(roots[1]) /\ ~isdir(roots[2])
    /\ recs = <<>>

\* C6: the rows of the 'Zero-byte files' sheet that is saved are one row per
\* record of size 0, in order, each with the path and the timestamps of that
\* record.
C6_ZeroRowsAreZeroFiles ==
    saved =>
        /\ Len(zeroRows) = Len(ZeroRecs)
        /\ \A k \in 1..Len(zeroRows) :
              /\ zeroRows[k].path = recs[ZeroRecs[k]].path
              /\ zeroRows[k].ctime = recs[ZeroRecs[k]].ctime
              /\ zeroRows[k].mtime = recs[ZeroRecs[k]].mtime

\* C7: if the file of a record cannot be read when it is to be hashed, the run
\* ends there with a non-zero status: no group is reported, no zero-byte count
\* is printed, the workbook is not saved, the record gets no hash and no other
\* record is hashed afterwards.
C7_ReadFailureAborts ==
    failedAt # 0 =>
        /\ pc = "done" /\ exit # 0 /\ error = "IOError"
        /\ groups = <<>>
        /\ printedZero = NoCount
        /\ ~saved
        /\ lazy[failedAt] = NoHash
        /\ \A h \in DOMAIN hashes : \A k \in 1..Len(hashes[h]) : hashes[h][k] # failedAt

C7_Witness ==
    /\ failedAt # 0
    /\ pc = "done"
    /\ \E i \in Recs : reads[i] # <<>>
    /\ \E i \in Recs \ {failedAt} :
          /\ recs[i].size = recs[failedAt].size
          /\ reads[i] = <<>>

\* The directory that lists x (a file or a sub-directory).
Parent(x) ==
    CHOOSE d \in Dirs :
        \/ \E k \in 1..Len(Tree[d].files) : Tree[d].files[k] = x
        \/ \E k \in 1..Len(Tree[d].dirs) : Tree[d].dirs[k] = x

HasParent(x) ==
    \E d \in Dirs :
        \/ \E k \in 1..Len(Tree[d].files) : Tree[d].files[k] = x
        \/ \E k \in 1..Len(Tree[d].dirs) : Tree[d].dirs[k] = x

\* The directories a path lies under.
RECURSIVE Ancestors(_)
Ancestors(x) == IF HasParent(x) THEN {Parent(x)} \cup Ancestors(Parent(x)) ELSE {}

\* The number of given roots the file p lies under.
Visits(p) == Cardinality({i \in 1..Len(roots) : roots[i] \in Ancestors(p)})

RecsOf(p) == {i \in Recs : recs[i].path = p}

SameGroup(i, j) == \E n \in 1..Len(groups) : {i, j} \subseteq Members(groups[n])

\* No other process has rewritten the file since the walk began.
Unmodified(p) == stamp[p] = 0

WalkDone == AllRootsValid /\ pc \notin {"validate", "walk"}

\* The length of the content that was read for the record i.
SizeAtHash(i) == Len(reads[i][1])

\* C8 as stated: two records of different size are never in the same bucket
\* of the map that hash_files builds.
C8_Original ==
    \A h \in DOMAIN hashes :
        \A k, l \in 1..Len(hashes[h]) :
            recs[hashes[h][k]].size = recs[hashes[h][l]].size

\* C8, amended: two records of different size, each of whose files still had
\* its recorded size when it was hashed, are never in the same bucket of the
\* map that hash_files builds.
C8_SameBucketSameSize ==
    \A h \in DOMAIN hashes :
        \A k, l \in 1..Len(hashes[h]) :
            LET i == hashes[h][k]
                j == hashes[h][l]
            IN  (/\ reads[i] # <<>> /\ reads[j] # <<>>
                 /\ SizeAtHash(i) = recs[i].size
                 /\ SizeAtHash(j) = recs[j].size)
                => recs[i].size = recs[j].size

\* Two size buckets of two members each, all four hashed into the map.
C8_Witness ==
    /\ pc = "report"
    /\ edits = 0
    /\ \E h1, h2 \in DOMAIN hashes :
          /\ h1 # h2
          /\ Len(hashes[h1]) = 2 /\ Len(hashes[h2]) = 2
          /\ recs[hashes[h1][1]].size # recs[hashes[h2][1]].size

\* C9 as stated: after the walk every file has one record per root it lies
\* under; in a run that completed, the records of the same path and of
\* non-zero size are members of one common group; if no file lies under two
\* roots, no group lists a path twice.
C9_Original ==
    /\ WalkDone => \A p \in Paths : Cardinality(RecsOf(p)) = Visits(p)
    /\ Success =>
         \A i, j \in Recs :
            (/\ i # j /\ recs[i].path = recs[j].path
             /\ recs[i].size # 0 /\ recs[j].size # 0) => SameGroup(i, j)
    /\ (\A p \in Paths : Visits(p) <= 1) =>
         \A n \in 1..Len(groups) :
            \A k, l \in 1..Len(groups[n].rows) :
               groups[n].rows[k].path = groups[n].rows[l].path => k = l

\* C9, amended: as C9, where the records of the same path are members of one
\* common group if no other process has rewritten the file during the run.
C9_OverlappingRoots ==
    /\ WalkDone => \A p \in Paths : Cardinality(RecsOf(p)) = Visits(p)
    /\ Success =>
         \A i, j \in Recs :
            (/\ i # j /\ recs[i].path = recs[j].path
             /\ recs[i].size # 0 /\ recs[j].size # 0
             /\ Unmodified(recs[i].path))
            => SameGroup(i, j)
    /\ (\A p \in Paths : Visits(p) <= 1) =>
         \A n \in 1..Len(groups) :
            \A k, l \in 1..Len(groups[n].rows) :
               groups[n].rows[k].path = groups[n].rows[l].path => k = l

\* A root nested in another: the file under both is a duplicate of itself.
C9_Witness ==
    /\ Success
    /\ roots = <<"/a", "/a/s">>
    /\ Len(groups) = 1
    /\ Len(groups[1].rows) = 2
    /\ groups[1].rows[1].path = "/a/s/f2" /\ groups[1].rows[2].path = "/a/s/f2"
    /\ ~Grouped(1)

\* C10: the content of the file of a record is read for hashing at most once;
\* the hash of the record is the digest of what was read then, and every row
\* reported for the record shows that digest, whatever is on disk by then.
C10_HashReadOnce ==
    /\ \A i \in Recs :
         /\ Len(reads[i]) <= 1
         /\ lazy[i] # NoHash => (Len(reads[i]) = 1 /\ lazy[i] = sha1(reads[i][1]))
    /\ \A n \in 1..Len(groups) :
         \A k \in 1..Len(groups[n].rows) :
            LET row == groups[n].rows[k]
            IN  reads[row.rec] # <<>> /\ row.hash = sha1(reads[row.rec][1])
    /\ \A k \in 1..Len(zeroRows) : zeroRows[k].hash = lazy[Len(recs)]

\* A reported row whose file has another content on disk than the one hashed.
C10_Witness ==
    /\ Success
    /\ \E n \in 1..Len(groups) :
          \E k \in 1..Len(groups[n].rows) :
             LET row == groups[n].rows[k]
             IN  /\ disk[row.path] # reads[row.rec][1]
                 /\ row.hash # sha1(disk[row.path])
                 /\ row.hash = lazy[row.rec]

====
